---- MODULE Spec2Model ----
(***************************************************************************)
(* A model of the mlx-client serve commands:                               *)
(*   - the endpoint resolver (src/src/serve/mod.rs): a process-wide        *)
(*     tokio OnceCell filled by lazy_load_server_url;                      *)
(*   - the test orchestrator run_tests / validate_tests                    *)
(*     (src/src/serve/run.rs);                                             *)
(*   - deploy_service and the image pipeline build_tag_and_push_image      *)
(*     (src/src/serve/create.rs);                                          *)
(*   - the schema normalization build_service_params_from_json             *)
(*     (src/src/serve/create.rs).                                          *)
(* One process runs one command, so each component has a specification of  *)
(* its own (SpecUrl, SpecRun, SpecDeploy, SpecNorm) over the same          *)
(* variables.                                                              *)
(***************************************************************************)
EXTENDS Integers, Sequences, FiniteSets, TLC

(***************************************************************************)
(* Bounds of the model.                                                    *)
(***************************************************************************)
\* concurrent callers of get_server_url in one process
NCallers == 3
\* deploy_service invocations made one after the other by the caller
MaxDeploys == 3
\* longest `output` array of a schema file
MaxParams == 2

Callers == 1..NCallers

(***************************************************************************)
(* Program constants.                                                      *)
(***************************************************************************)
LOCAL_SERVER_URL == "http://localhost:3000"
REMOTE_SERVER_URL == "http://3.132.162.86:30000"
CALL_SERVICE_URL == "http://3.132.162.86:30000/handle_request/"
IMAGE_REGISTRY == "ghcr.io/alexlatif/wondera"
\* the value of the environment variable GHCR_TOKEN
REGISTRY_TOKEN == "<GHCR_TOKEN>"
TestChannel == "test-channel"
StopMessage == "stop"
\* the grace period slept after spawning the service
GracePeriod == "3s"

\* the empty OnceCell / Option::None
None == "None"

VARIABLES
    \* ---- endpoint resolver (serve/mod.rs) ----
    SERVER_URL,     \* the OnceCell<Arc<String>>: None or the resolved url
    permit,         \* holder of the OnceCell's init permit; 0 = free
    cpc,            \* caller -> position inside get_server_url
    cval,           \* caller -> url its lazy_load_server_url is about to return
    cret,           \* caller -> url returned by get_server_url (None before)
    cpath,          \* caller -> how it got the url: "init", "waited", "fast"
    loads,          \* lazy_load_server_url invocations started
    panics,         \* lazy_load_server_url invocations that panicked
    writes,         \* writes of the OnceCell
    probeLog,       \* the liveness probes issued: <<caller, url, ok>>
    ctlRequests,    \* control-plane requests sent by the callers: [caller, base, endpoint]
    \* ---- test orchestrator (serve/run.rs) ----
    test_name,      \* Option<String>: the requested test
    remote,         \* the --remote flag
    config,         \* TestConfig: [service, test]
    schemaBody,     \* ServiceParams.input.body: None or a sequence of Param
    rpc,            \* position inside run_tests
    tests_to_run,   \* Vec<String>
    validated,      \* the tests validate_tests has passed, in order
    vresult,        \* what validate_tests ended with: NoVerdict before, ValidOk or its panic
    redis,          \* the RedisManager: "none", "connected", "failed"
    idx,            \* number of tests the dispatch loop has taken
    events,         \* external effects of run_tests, in order
    rresult,        \* outcome of run_tests: None, "Ok", "Err:..", "panic:.."
    py,             \* the spawned service task: "none", "scheduled", "running", "exited"
    \* ---- deploy (serve/create.rs) ----
    arch,           \* resources.arch of the manifest mlx.toml
    conf,           \* DeployServiceConf: [service_name, replicas, cpu_limit, gpu_limit,
                    \*                     memory_limit, concurrent_jobs]
    dpc,            \* position inside deploy_service
    deploys,        \* deploy_service invocations started
    uuid,           \* the uuid generated by this invocation
    stage,          \* position inside build_tag_and_push_image
    commands,       \* external commands of this invocation: [stage, args, ok]
    requests,       \* upload_service requests of this invocation
    dresult,        \* outcome of deploy_service: None, "Ok", "Err:..", "panic:.."
    reported,       \* TRUE once "has been deployed successfully" is logged
    history,        \* the invocations that ended: [service_name, image_uri, ok]
    \* ---- schema normalization (serve/create.rs) ----
    contents,       \* the parsed schema file given to build_service_params_from_json
    service_params, \* what build_service_params_from_json returned
    npc             \* position of a lone call: "idle", "start", "done"

urlVars == <<SERVER_URL, permit, cpc, cval, cret, cpath, loads, panics, writes, probeLog,
             ctlRequests>>
runVars == <<test_name, remote, config, schemaBody, rpc, tests_to_run, validated,
             vresult, redis, idx, events, rresult, py>>
depVars == <<arch, conf, dpc, deploys, uuid, stage, commands, requests, dresult, reported,
             history>>
normVars == <<contents, service_params, npc>>
vars == <<urlVars, runVars, depVars, normVars>>

(***************************************************************************)
(* Endpoint resolver.                                                      *)
(***************************************************************************)
UrlIdle ==
    /\ SERVER_URL = None
    /\ permit = 0
    /\ cpc = [c \in Callers |-> "idle"]
    /\ cval = [c \in Callers |-> None]
    /\ cret = [c \in Callers |-> None]
    /\ cpath = [c \in Callers |-> None]
    /\ loads = 0
    /\ panics = 0
    /\ writes = 0
    /\ probeLog = <<>>
    /\ ctlRequests = <<>>

\* OnceCell::get_or_init, first check: an initialized cell is read at once.
Initialized == SERVER_URL # None

\* The permit of the cell's semaphore can be taken by a waiting caller.
PermitFree_NoSemaphore == TRUE
PermitFree == permit = 0

\* get_server_url is entered: SERVER_URL.get_or_init(..)
GetServerUrl(c) ==
    /\ cpc[c] = "idle"
    /\ IF Initialized
         THEN /\ cpc' = [cpc EXCEPT ![c] = "returned"]
              /\ cret' = [cret EXCEPT ![c] = SERVER_URL]
              /\ cpath' = [cpath EXCEPT ![c] = "fast"]
         ELSE /\ cpc' = [cpc EXCEPT ![c] = "acquire"]
              /\ UNCHANGED <<cret, cpath>>
    /\ UNCHANGED <<SERVER_URL, permit, cval, loads, panics, writes, probeLog, ctlRequests>>
    /\ UNCHANGED <<runVars, depVars, normVars>>

\* semaphore.acquire() returns the permit: the init closure starts,
\* lazy_load_server_url is entered.
AcquirePermit(c) ==
    /\ cpc[c] = "acquire"
    /\ ~Initialized
    /\ PermitFree
    /\ permit' = c
    /\ loads' = loads + 1
    /\ cpc' = [cpc EXCEPT ![c] = "probe_local"]
    /\ cpath' = [cpath EXCEPT ![c] = "init"]
    /\ UNCHANGED <<SERVER_URL, cval, cret, panics, writes, probeLog, ctlRequests>>
    /\ UNCHANGED <<runVars, depVars, normVars>>

\* semaphore.acquire() fails because set_value closed the semaphore: the
\* waiter reads the value another caller stored.
AcquireClosed(c) ==
    /\ cpc[c] = "acquire"
    /\ Initialized
    /\ cpc' = [cpc EXCEPT ![c] = "returned"]
    /\ cret' = [cret EXCEPT ![c] = SERVER_URL]
    /\ cpath' = [cpath EXCEPT ![c] = "waited"]
    /\ UNCHANGED <<SERVER_URL, permit, cval, loads, panics, writes, probeLog, ctlRequests>>
    /\ UNCHANGED <<runVars, depVars, normVars>>

\* a probe whose answer is not looked at
ProbeLocal_AnyAnswer(c, ok) ==
    /\ cpc[c] = "probe_local"
    /\ probeLog' = Append(probeLog, <<c, LOCAL_SERVER_URL, ok>>)
    /\ cval' = [cval EXCEPT ![c] = LOCAL_SERVER_URL]
    /\ cpc' = [cpc EXCEPT ![c] = "set_value"]
    /\ UNCHANGED <<SERVER_URL, permit, cret, cpath, loads, panics, writes, ctlRequests>>
    /\ UNCHANGED <<runVars, depVars, normVars>>

\* a resolver that falls back on the local url when no server answers
ProbeRemote_Fallback(c, ok) ==
    /\ cpc[c] = "probe_remote"
    /\ probeLog' = Append(probeLog, <<c, REMOTE_SERVER_URL, ok>>)
    /\ cval' = [cval EXCEPT ![c] = IF ok THEN REMOTE_SERVER_URL ELSE LOCAL_SERVER_URL]
    /\ cpc' = [cpc EXCEPT ![c] = "set_value"]
    /\ UNCHANGED <<SERVER_URL, permit, cret, cpath, loads, panics, writes, ctlRequests>>
    /\ UNCHANGED <<runVars, depVars, normVars>>

\* is_server_available(LOCAL_SERVER_URL): ok = a response with a success status
ProbeLocal(c, ok) ==
    /\ cpc[c] = "probe_local"
    /\ probeLog' = Append(probeLog, <<c, LOCAL_SERVER_URL, ok>>)
    /\ IF ok
         THEN /\ cval' = [cval EXCEPT ![c] = LOCAL_SERVER_URL]
              /\ cpc' = [cpc EXCEPT ![c] = "set_value"]
         ELSE /\ cpc' = [cpc EXCEPT ![c] = "probe_remote"]
              /\ UNCHANGED cval
    /\ UNCHANGED <<SERVER_URL, permit, cret, cpath, loads, panics, writes, ctlRequests>>
    /\ UNCHANGED <<runVars, depVars, normVars>>

\* is_server_available(REMOTE_SERVER_URL); neither server answering panics,
\* which drops the permit without a value being stored.
ProbeRemote(c, ok) ==
    /\ cpc[c] = "probe_remote"
    /\ probeLog' = Append(probeLog, <<c, REMOTE_SERVER_URL, ok>>)
    /\ IF ok
         THEN /\ cval' = [cval EXCEPT ![c] = REMOTE_SERVER_URL]
              /\ cpc' = [cpc EXCEPT ![c] = "set_value"]
              /\ UNCHANGED <<permit, panics>>
         ELSE /\ cpc' = [cpc EXCEPT ![c] = "panicked"]
              /\ permit' = 0
              /\ panics' = panics + 1
              /\ UNCHANGED cval
    /\ UNCHANGED <<SERVER_URL, cret, cpath, loads, writes, ctlRequests>>
    /\ UNCHANGED <<runVars, depVars, normVars>>

\* OnceCell::set_value: store the url, close the semaphore, return a clone.
SetValue(c) ==
    /\ cpc[c] = "set_value"
    /\ SERVER_URL' = cval[c]
    /\ writes' = writes + 1
    /\ permit' = 0
    /\ cpc' = [cpc EXCEPT ![c] = "returned"]
    /\ cret' = [cret EXCEPT ![c] = cval[c]]
    /\ UNCHANGED <<cval, cpath, loads, panics, probeLog, ctlRequests>>
    /\ UNCHANGED <<runVars, depVars, normVars>>

\* delete_service after get_server_url().await: the endpoint is built on the
\* returned url and sent
SendRequest(c) ==
    /\ cpc[c] = "returned"
    /\ ctlRequests' = Append(ctlRequests,
                             [caller |-> c, base |-> cret[c],
                              endpoint |-> "/delete_service/"])
    /\ cpc' = [cpc EXCEPT ![c] = "sent"]
    /\ UNCHANGED <<SERVER_URL, permit, cval, cret, cpath, loads, panics, writes, probeLog>>
    /\ UNCHANGED <<runVars, depVars, normVars>>

(***************************************************************************)
(* Test orchestrator: data.                                                *)
(***************************************************************************)
\* the [test.<name>] tables a manifest may hold, and the names a user may ask for
TestNames == {"foo_test", "bar_test"}
RequestedNames == {None} \cup TestNames \cup {"baz_test"}
ServiceNames == {"mnist", "a3"}
FieldNames == {"path_image", "accuracy"}

\* a toml::Value of a fixture: its kind (is_str / is_integer / is_float) and literal
StrValue(lit) == [kind |-> "str", lit |-> lit]
IntValue(lit) == [kind |-> "int", lit |-> lit]
FloatValue(lit) == [kind |-> "float", lit |-> lit]
Values == {StrValue("image_0.png"), IntValue("1"), FloatValue("0.98")}

\* HashMap<String, Value>: one test's fields
Fixtures == UNION {[F -> Values] : F \in SUBSET FieldNames}
\* HashMap<String, HashMap<String, Value>>: the manifest's test table
TestTables == UNION {[K -> Fixtures] : K \in SUBSET TestNames}
TestConfigs == [service : ServiceNames, test : TestTables]

Param(name, dtype, required) == [name |-> name, dtype |-> dtype, required |-> required]
\* ServiceParams.input.body: Option<Vec<Param>>
NoBody == [some |-> FALSE, params |-> <<>>]
SomeBody(params) == [some |-> TRUE, params |-> params]
SchemaBodies ==
    { NoBody,
      SomeBody(<<Param("path_image", "string", TRUE)>>),
      SomeBody(<<Param("path_image", "string", TRUE), Param("accuracy", "float", FALSE)>>),
      SomeBody(<<Param("accuracy", "int", FALSE), Param("path_image", "string", FALSE)>>),
      SomeBody(<<Param("accuracy", "integer", TRUE)>>) }

\* the external effects of run_tests; outcome is "ok", "error" (the call returned
\* Err) or, for a post, "status" (a response with a non-success status)
Event(op, target, test, kind, body, outcome) ==
    [op |-> op, target |-> target, test |-> test, kind |-> kind, body |-> body,
     outcome |-> outcome]
PublishOutcomes == {"ok", "error"}
PostOutcomes == {"ok", "status", "error"}
SpawnEvent == Event("spawn", "main.py --build 0", None, "task", <<>>, "ok")
SleepEvent == Event("sleep", GracePeriod, None, "sleep", <<>>, "ok")
\* an envelope that carries only the fields the schema declares
PublishEvent_DeclaredOnly(test, test_spec, outcome) ==
    Event("publish", TestChannel, test, "envelope",
          [f \in {g \in DOMAIN test_spec :
                    \E k \in 1..Len(schemaBody.params) : schemaBody.params[k].name = g}
             |-> test_spec[f]],
          outcome)
\* redis.publish("test-channel", &message): the envelope carries {"body": test_spec}
PublishEvent(test, test_spec, outcome) ==
    Event("publish", TestChannel, test, "envelope", test_spec, outcome)
\* redis.publish("test-channel", "stop")
StopEvent(outcome) == Event("publish", TestChannel, None, StopMessage, <<>>, outcome)
\* format!("{CALL_SERVICE_URL}{}", config.service)
PostUrl_TestName(cfg, test) == CALL_SERVICE_URL \o test
PostUrl(cfg, test) == CALL_SERVICE_URL \o cfg.service
\* Client::new().post(url).body(body).send()
PostEvent(cfg, test, test_spec, outcome) ==
    Event("post", PostUrl(cfg, test), test, "json", test_spec, outcome)

\* all orders in which a HashMap may yield the keys K
Perms(K) == {s \in [1..Cardinality(K) -> K] : \A i, j \in 1..Cardinality(K) : i # j => s[i] # s[j]}

(***************************************************************************)
(* validate_tests: the first panic met, or "ok".                           *)
(***************************************************************************)
Verdict(kind, test, param, dtype, found) ==
    [kind |-> kind, test |-> test, param |-> param, dtype |-> dtype, found |-> found]
\* no toml::Value
NoValue == [kind |-> "none", lit |-> ""]
ValidOk == Verdict("ok", None, None, None, NoValue)
\* validate_tests has not been called
NoVerdict == Verdict("none", None, None, None, NoValue)

\* the match on param.dtype for a value the fixture holds
TypeMismatch_IntIsFloat(dtype, value) ==
    \/ dtype = "string" /\ value.kind # "str"
    \/ dtype = "int" /\ value.kind # "int"
    \/ dtype = "float" /\ value.kind \notin {"float", "int"}
TypeMismatch_Integer(dtype, value) ==
    \/ dtype = "string" /\ value.kind # "str"
    \/ dtype \in {"int", "integer"} /\ value.kind # "int"
    \/ dtype = "float" /\ value.kind # "float"
TypeMismatch(dtype, value) ==
    \/ dtype = "string" /\ value.kind # "str"
    \/ dtype = "int" /\ value.kind # "int"
    \/ dtype = "float" /\ value.kind # "float"

\* a check that lets a missing parameter pass
ValidateParam_PresentOnly(test, test_spec, param) ==
    IF param.name \in DOMAIN test_spec /\ TypeMismatch(param.dtype, test_spec[param.name])
      THEN Verdict("type", test, param.name, param.dtype, test_spec[param.name])
      ELSE ValidOk
\* a check that wants every declared parameter in the fixture
ValidateParam_AllRequired(test, test_spec, param) ==
    IF param.name \in DOMAIN test_spec
      THEN IF TypeMismatch(param.dtype, test_spec[param.name])
             THEN Verdict("type", test, param.name, param.dtype, test_spec[param.name])
             ELSE ValidOk
      ELSE Verdict("missing", test, param.name, param.dtype, NoValue)

\* the body of `for param in body_params`
ValidateParam(test, test_spec, param) ==
    IF param.name \in DOMAIN test_spec
      THEN IF TypeMismatch(param.dtype, test_spec[param.name])
             THEN Verdict("type", test, param.name, param.dtype, test_spec[param.name])
             ELSE ValidOk
      ELSE IF param.required
             THEN Verdict("missing", test, param.name, param.dtype, NoValue)
             ELSE ValidOk

RECURSIVE ValidateParams(_, _, _, _)
ValidateParams(test, test_spec, body_params, i) ==
    IF i > Len(body_params) THEN ValidOk
    ELSE LET v == ValidateParam(test, test_spec, body_params[i])
         IN IF v.kind # "ok" THEN v
            ELSE ValidateParams(test, test_spec, body_params, i + 1)

ValidateTest(test, cfg, body) ==
    IF test \in DOMAIN cfg.test
      THEN IF body.some
             THEN ValidateParams(test, cfg.test[test], body.params, 1)
             ELSE ValidOk
      ELSE Verdict("notfound", test, None, None, NoValue)

\* <<the tests passed before the first panic, the verdict>>
RECURSIVE ValidateFrom(_, _, _, _)
ValidateFrom(tests, cfg, body, i) ==
    IF i > Len(tests) THEN <<tests, ValidOk>>
    ELSE LET v == ValidateTest(tests[i], cfg, body)
         IN IF v.kind # "ok" THEN <<SubSeq(tests, 1, i - 1), v>>
            ELSE ValidateFrom(tests, cfg, body, i + 1)

validate_tests(tests, cfg, body) == ValidateFrom(tests, cfg, body, 1)

(***************************************************************************)
(* run_tests.                                                              *)
(***************************************************************************)
RunIdle ==
    /\ test_name = None
    /\ remote = FALSE
    /\ config = [service |-> "mnist", test |-> <<>>]
    /\ schemaBody = NoBody
    /\ rpc = "idle"
    /\ tests_to_run = <<>>
    /\ validated = <<>>
    /\ vresult = NoVerdict
    /\ redis = "none"
    /\ idx = 0
    /\ events = <<>>
    /\ rresult = None
    /\ py = "none"

RunStart ==
    /\ test_name \in RequestedNames
    /\ remote \in BOOLEAN
    /\ config \in TestConfigs
    /\ schemaBody \in SchemaBodies
    /\ rpc = "load"
    /\ tests_to_run = <<>>
    /\ validated = <<>>
    /\ vresult = NoVerdict
    /\ redis = "none"
    /\ idx = 0
    /\ events = <<>>
    /\ rresult = None
    /\ py = "none"

\* run_tests returns or panics
RunEnds(result) ==
    /\ rpc' = "ended"
    /\ rresult' = result

\* File::open / read_to_string / toml::from_str of the manifest
LoadConfig(outcome) ==
    /\ rpc = "load"
    /\ CASE outcome = "ok" -> rpc' = "select" /\ UNCHANGED rresult
         [] outcome = "open" -> RunEnds("Err: Failed to open TOML file")
         [] outcome = "read" -> RunEnds("panic: Failed to read TOML file")
         [] outcome = "parse" -> RunEnds("panic: Failed to parse TOML")
    /\ UNCHANGED <<test_name, remote, config, schemaBody, vresult, redis, tests_to_run, validated,
                   idx, events, py>>
    /\ UNCHANGED <<urlVars, depVars, normVars>>

\* the tests selected for a requested name, or for none (any key order)
Selections_Fallback(name, cfg) ==
    IF name # None /\ name \in DOMAIN cfg.test THEN {<<name>>} ELSE Perms(DOMAIN cfg.test)
Selections(name, cfg) ==
    IF name # None
      THEN IF name \in DOMAIN cfg.test THEN {<<name>>} ELSE {}
      ELSE Perms(DOMAIN cfg.test)

\* let tests_to_run = ..
SelectTests ==
    /\ rpc = "select"
    /\ IF Selections(test_name, config) = {}
         THEN /\ RunEnds("panic: Test name not found in the config")
              /\ UNCHANGED tests_to_run
         ELSE /\ tests_to_run' \in Selections(test_name, config)
              /\ rpc' = "validate"
              /\ UNCHANGED rresult
    /\ UNCHANGED <<test_name, remote, config, schemaBody, vresult, redis, validated, idx, events, py>>
    /\ UNCHANGED <<urlVars, depVars, normVars>>

\* validate_tests panics on any verdict but "ok"
ValidationPanics_Never(verdict) == FALSE
ValidationPanics(verdict) == verdict.kind # "ok"

\* read_to_string of the schema, ServiceParams::from_json, validate_tests
Validate(outcome) ==
    /\ rpc = "validate"
    /\ CASE outcome = "read" ->
              /\ RunEnds("Err: Failed to read service schema file")
              /\ UNCHANGED <<validated, vresult>>
         [] outcome = "parse" ->
              /\ RunEnds("panic: Failed to parse service schema")
              /\ UNCHANGED <<validated, vresult>>
         [] outcome = "ok" ->
              LET r == validate_tests(tests_to_run, config, schemaBody)
              IN /\ validated' = r[1]
                 /\ vresult' = r[2]
                 /\ IF ~ValidationPanics(r[2])
                      THEN rpc' = "redis" /\ UNCHANGED rresult
                      ELSE RunEnds("panic: Validation Error")
    /\ UNCHANGED <<test_name, remote, config, schemaBody, redis, tests_to_run, idx, events, py>>
    /\ UNCHANGED <<urlVars, depVars, normVars>>

\* a connection step that takes the local path whatever the flag
ConnectRedis_SpawnAlways(ok) ==
    /\ rpc = "redis"
    /\ redis' = IF ok THEN "connected" ELSE "failed"
    /\ IF ok
         THEN rpc' = "spawn" /\ UNCHANGED rresult
         ELSE RunEnds("Err: Failed to create Redis manager")
    /\ UNCHANGED <<test_name, remote, config, schemaBody, vresult, tests_to_run, validated,
                   idx, events, py>>
    /\ UNCHANGED <<urlVars, depVars, normVars>>
\* a connection step whose failure is passed over in remote mode
ConnectRedis_Lenient(ok) ==
    /\ rpc = "redis"
    /\ redis' = IF ok THEN "connected" ELSE "failed"
    /\ IF ok \/ remote
         THEN rpc' = (IF remote THEN "loop" ELSE "spawn") /\ UNCHANGED rresult
         ELSE RunEnds("Err: Failed to create Redis manager")
    /\ UNCHANGED <<test_name, remote, config, schemaBody, vresult, tests_to_run, validated,
                   idx, events, py>>
    /\ UNCHANGED <<urlVars, depVars, normVars>>

\* RedisManager::new(REDIS_URL)
ConnectRedis(ok) ==
    /\ rpc = "redis"
    /\ redis' = IF ok THEN "connected" ELSE "failed"
    /\ IF ok
         THEN rpc' = (IF remote THEN "loop" ELSE "spawn") /\ UNCHANGED rresult
         ELSE RunEnds("Err: Failed to create Redis manager")
    /\ UNCHANGED <<test_name, remote, config, schemaBody, vresult, tests_to_run, validated,
                   idx, events, py>>
    /\ UNCHANGED <<urlVars, depVars, normVars>>

\* tokio::spawn(run_python_script("main.py", --build 0))
SpawnService ==
    /\ rpc = "spawn"
    /\ events' = Append(events, SpawnEvent)
    /\ py' = "scheduled"
    /\ rpc' = "sleep"
    /\ UNCHANGED <<test_name, remote, config, schemaBody, vresult, redis, tests_to_run, validated,
                   idx, rresult>>
    /\ UNCHANGED <<urlVars, depVars, normVars>>

\* tokio::time::sleep(3 s)
Sleep ==
    /\ rpc = "sleep"
    /\ events' = Append(events, SleepEvent)
    /\ rpc' = "loop"
    /\ UNCHANGED <<test_name, remote, config, schemaBody, vresult, redis, tests_to_run, validated,
                   idx, rresult, py>>
    /\ UNCHANGED <<urlVars, depVars, normVars>>

\* the test the loop `for test in tests_to_run` takes after i iterations
LoopTest_Reversed(tests, i) == tests[Len(tests) - i]
LoopTest(tests, i) == tests[i + 1]

\* what a failed send() does to the remote loop: the `?` returns the error
RemoteSendFailed_Continue ==
    /\ idx' = idx + 1
    /\ UNCHANGED <<rpc, rresult>>
RemoteSendFailed ==
    /\ RunEnds("Err: Failed to build CURL request")
    /\ idx' = idx + 1

\* one iteration of `for test in tests_to_run`, remote branch: a response is
\* logged whatever its status
DispatchRemote(outcome) ==
    /\ rpc = "loop"
    /\ remote
    /\ idx < Len(tests_to_run)
    /\ LET test == LoopTest(tests_to_run, idx)
       IN events' = Append(events, PostEvent(config, test, config.test[test], outcome))
    /\ IF outcome # "error"
         THEN idx' = idx + 1 /\ UNCHANGED <<rpc, rresult>>
         ELSE RemoteSendFailed
    /\ UNCHANGED <<test_name, remote, config, schemaBody, vresult, redis, tests_to_run, validated, py>>
    /\ UNCHANGED <<urlVars, depVars, normVars>>

\* what a failed publish does to the local loop: `let _ =` drops the error
LocalPublishFailed_Abort ==
    /\ RunEnds("Err: publish failed")
    /\ idx' = idx + 1
LocalPublishFailed ==
    /\ idx' = idx + 1
    /\ UNCHANGED <<rpc, rresult>>

\* one iteration of `for test in tests_to_run`, local branch
DispatchLocal(outcome) ==
    /\ rpc = "loop"
    /\ ~remote
    /\ idx < Len(tests_to_run)
    /\ LET test == LoopTest(tests_to_run, idx)
       IN events' = Append(events, PublishEvent(test, config.test[test], outcome))
    /\ IF outcome # "error"
         THEN idx' = idx + 1 /\ UNCHANGED <<rpc, rresult>>
         ELSE LocalPublishFailed
    /\ UNCHANGED <<test_name, remote, config, schemaBody, vresult, redis, tests_to_run, validated, py>>
    /\ UNCHANGED <<urlVars, depVars, normVars>>

\* an orchestrator that joins the service task before it stops it
PublishStop_Joined(outcome) ==
    /\ rpc = "loop"
    /\ ~remote
    /\ idx = Len(tests_to_run)
    /\ py = "exited"
    /\ events' = Append(events, StopEvent(outcome))
    /\ RunEnds("Ok")
    /\ UNCHANGED <<test_name, remote, config, schemaBody, vresult, redis, tests_to_run,
                   validated, idx, py>>
    /\ UNCHANGED <<urlVars, depVars, normVars>>

\* after the loop in local mode: redis.publish("test-channel", "stop"), Ok(())
PublishStop(outcome) ==
    /\ rpc = "loop"
    /\ ~remote
    /\ idx = Len(tests_to_run)
    /\ events' = Append(events, StopEvent(outcome))
    /\ RunEnds("Ok")
    /\ UNCHANGED <<test_name, remote, config, schemaBody, vresult, redis, tests_to_run, validated,
                   idx, py>>
    /\ UNCHANGED <<urlVars, depVars, normVars>>

\* after the loop in remote mode: Ok(())
FinishRemote ==
    /\ rpc = "loop"
    /\ remote
    /\ idx = Len(tests_to_run)
    /\ RunEnds("Ok")
    /\ UNCHANGED <<test_name, remote, config, schemaBody, vresult, redis, tests_to_run, validated,
                   idx, events, py>>
    /\ UNCHANGED <<urlVars, depVars, normVars>>

\* the runtime polls the spawned task: run_python_script starts the service
ServiceStarts ==
    /\ py = "scheduled"
    /\ py' = "running"
    /\ UNCHANGED <<test_name, remote, config, schemaBody, vresult, redis, rpc, tests_to_run, validated,
                   idx, events, rresult>>
    /\ UNCHANGED <<urlVars, depVars, normVars>>

\* the service process exits on its own account
ServiceExits ==
    /\ py = "running"
    /\ py' = "exited"
    /\ UNCHANGED <<test_name, remote, config, schemaBody, vresult, redis, rpc, tests_to_run, validated,
                   idx, events, rresult>>
    /\ UNCHANGED <<urlVars, depVars, normVars>>

(***************************************************************************)
(* build_service_params_from_json: the schema file and its normal form.    *)
(***************************************************************************)
\* a JSON value found under the key `required`, or the key missing
JBool(v) == [t |-> "bool", v |-> v]
JStr(v) == [t |-> "str", v |-> v]
JNum(v) == [t |-> "num", v |-> v]
JAbsent == [t |-> "absent", v |-> ""]
RequiredValues ==
    {JBool("true"), JBool("false"), JStr("True"), JStr("true"), JStr("False"),
     JStr("false"), JStr("yes"), JNum("1"), JAbsent}

\* an element of a parameter array: a JSON object with the keys name, dtype
\* (None when the key is missing) and required, or a value that is no object
JObject(name, dtype, required) ==
    [obj |-> TRUE, name |-> name, dtype |-> dtype, required |-> required]
NotAnObject == [obj |-> FALSE, name |-> "", dtype |-> "", required |-> JAbsent]

\* the value under path, query, body or output: missing, an array, or
\* another kind of value
Absent == [kind |-> "absent", items |-> <<>>]
JArray(items) == [kind |-> "array", items |-> items]
NotAnArray == [kind |-> "other", items |-> <<>>]

\* the value under input: missing, or an object with path, query and body
NoInput == [present |-> FALSE, path |-> Absent, query |-> Absent, body |-> Absent]
JInput(path, query, body) ==
    [present |-> TRUE, path |-> path, query |-> query, body |-> body]

\* the parsed schema file
SchemaJson(input, output) == [input |-> input, output |-> output]

\* let convert_required = |required: &str| match required { "True" => true, _ => false }
convert_required(required) == required = "True"

\* Result values of the conversions
ParamOk(param) == [ok |-> TRUE, err |-> None, culprit |-> NotAnObject, param |-> param]
ParamErr(msg, p) ==
    [ok |-> FALSE, err |-> msg, culprit |-> p, param |-> Param("", "", FALSE)]
ParamsOk(params) == [ok |-> TRUE, err |-> None, culprit |-> NotAnObject, params |-> params]
ParamsErr(msg, p) == [ok |-> FALSE, err |-> msg, culprit |-> p, params |-> <<>>]

\* the closure mapped over the elements of a parameter array
ConvertParam(p) ==
    IF ~p.obj THEN ParamErr("Expected object", p)
    ELSE IF p.required.t = "absent" THEN ParamErr("Missing required field in param", p)
    ELSE IF p.required.t # "str" THEN ParamErr("Invalid required field type", p)
    ELSE IF p.dtype = None THEN ParamErr("Failed to convert param", p)
    ELSE ParamOk(Param(p.name, p.dtype, convert_required(p.required.v)))

\* .iter().map(..).collect::<RResult<Vec<Param>, _>>(): the first error ends it
RECURSIVE CollectParams(_, _, _)
CollectParams(items, i, acc) ==
    IF i > Len(items) THEN ParamsOk(acc)
    ELSE LET r == ConvertParam(items[i])
         IN  IF r.ok THEN CollectParams(items, i + 1, Append(acc, r.param))
             ELSE ParamsErr(r.err, r.culprit)

\* convert_params(params)
convert_params(params) ==
    IF params.kind # "array" THEN ParamsErr("Expected array", NotAnObject)
    ELSE CollectParams(params.items, 1, <<>>)

\* input.get(key).map_or(Ok(None), |v| convert_params(v).map(Some))
ConvertGroup(group) ==
    IF group.kind = "absent" THEN ParamsOk(<<>>) ELSE convert_params(group)
GroupOption(group, r) == IF group.kind = "absent" THEN NoBody ELSE SomeBody(r.params)

\* collect::<HashMap<String, Param>>(): of two entries with one name the
\* later one stays
OutputMap_FirstWins(params) ==
    {params[i] : i \in {k \in 1..Len(params) :
                          \A j \in 1..(k - 1) : params[j].name # params[k].name}}
OutputMap(params) ==
    {params[i] : i \in {k \in 1..Len(params) :
                          \A j \in (k + 1)..Len(params) : params[j].name # params[k].name}}

\* Result<ServiceParams, _>
NoServiceInput == [path |-> NoBody, query |-> NoBody, body |-> NoBody]
SchemaErr(msg, p) ==
    [ok |-> FALSE, err |-> msg, culprit |-> p, input |-> NoServiceInput, output |-> {}]
SchemaOk(input, output) ==
    [ok |-> TRUE, err |-> None, culprit |-> NotAnObject, input |-> input,
     output |-> output]
\* no call of build_service_params_from_json has returned
NoResult == SchemaErr(None, NotAnObject)

\* json.get("input") / json.get("output") is None
MissingInput_Tolerated(json) == FALSE
MissingInput(json) == ~json.input.present
MissingOutput(json) == json.output.kind = "absent"

build_service_params_from_json(json) ==
    IF MissingInput(json) THEN SchemaErr("Missing input field", NotAnObject)
    ELSE IF MissingOutput(json) THEN SchemaErr("Missing output field", NotAnObject)
    ELSE LET path == ConvertGroup(json.input.path)
             query == ConvertGroup(json.input.query)
             body == ConvertGroup(json.input.body)
             output == convert_params(json.output)
         IN  IF ~path.ok THEN SchemaErr(path.err, path.culprit)
             ELSE IF ~query.ok THEN SchemaErr(query.err, query.culprit)
             ELSE IF ~body.ok THEN SchemaErr(body.err, body.culprit)
             ELSE IF ~output.ok THEN SchemaErr(output.err, output.culprit)
             ELSE SchemaOk([path |-> GroupOption(json.input.path, path),
                            query |-> GroupOption(json.input.query, query),
                            body |-> GroupOption(json.input.body, body)],
                           OutputMap(output.params))

\* the schema files the model reads
SeqsUpTo(S, n) == UNION {[1..k -> S] : k \in 0..n}
InElems == {JObject("path_image", "string", r) : r \in RequiredValues} \cup {NotAnObject}
PathValues == {Absent} \cup {JArray(<<e>>) : e \in InElems}
QueryValues == {Absent, JArray(<<JObject("limit", "integer", JStr("False"))>>)}
BodyValues ==
    {Absent, NotAnArray} \cup {JArray(<<e>>) : e \in InElems}
    \cup {JArray(<<JObject("mtype", "string", JStr("True")), e>>) :
             e \in {JObject("optional_smoothing", "integer", JStr("False")),
                    JObject("optional_smoothing", "integer", JNum("1"))}}
InputValues ==
    {NoInput} \cup {JInput(p, q, b) : p \in PathValues, q \in QueryValues, b \in BodyValues}
OutElems ==
    {JObject("accuracy", "float", r) : r \in {JStr("True"), JStr("False"), JBool("true")}}
    \cup {JObject("label", "string", JStr("True")),
          JObject("accuracy", None, JStr("True")), NotAnObject}
OutputValues ==
    {Absent, NotAnArray} \cup {JArray(items) : items \in SeqsUpTo(OutElems, MaxParams)}
SchemaJsons == {SchemaJson(i, o) : i \in InputValues, o \in OutputValues}

NormIdle ==
    /\ contents = SchemaJson(NoInput, Absent)
    /\ service_params = NoResult
    /\ npc = "idle"

\* a call of build_service_params_from_json on a schema file
NormStart ==
    /\ contents \in SchemaJsons
    /\ service_params = NoResult
    /\ npc = "start"

Normalize ==
    /\ npc = "start"
    /\ service_params' = build_service_params_from_json(contents)
    /\ npc' = "done"
    /\ UNCHANGED contents
    /\ UNCHANGED <<urlVars, runVars, depVars>>

(***************************************************************************)
(* deploy_service and build_tag_and_push_image.                            *)
(***************************************************************************)
\* Uuid::new_v4() of the n-th invocation
Uuids == <<"5fa813db", "9b2c4e1f", "c0ffee00", "0ddba11a", "7e57ab1e">>

\* Option<u32>
NoNumber == [some |-> FALSE, n |-> 0]
SomeNumber(n) == [some |-> TRUE, n |-> n]
\* the resources a deploy is asked for: Option<String> limits, a String memory limit
Resources ==
    {[replicas |-> NoNumber, cpu_limit |-> "1", gpu_limit |-> None,
      memory_limit |-> "2048", concurrent_jobs |-> 2],
     [replicas |-> SomeNumber(3), cpu_limit |-> None, gpu_limit |-> "1",
      memory_limit |-> "512", concurrent_jobs |-> 2]}
DeployServiceConf(name, res) ==
    [service_name |-> name, replicas |-> res.replicas, cpu_limit |-> res.cpu_limit,
     gpu_limit |-> res.gpu_limit, memory_limit |-> res.memory_limit,
     concurrent_jobs |-> res.concurrent_jobs]

\* Quantity(limit.as_deref().unwrap_or("0").to_string())
OptionQuantity(limit) == IF limit = None THEN "0" ELSE limit
\* Quantity(conf.memory_limit.clone())
MemoryQuantity(memory_limit) == memory_limit
\* the ResourceRequest of the upload
ResourceRequest(c) ==
    [replicas |-> SomeNumber(IF c.replicas.some THEN c.replicas.n ELSE 1),
     cpu_limit |-> OptionQuantity(c.cpu_limit),
     memory_limit |-> MemoryQuantity(c.memory_limit),
     use_gpu |-> c.gpu_limit # None,
     gpu_limit |-> OptionQuantity(c.gpu_limit),
     concurrent_jobs |-> c.concurrent_jobs]

\* resources.arch of the manifest
Archs == {"amd64", "arm64"}

\* the config.json files deploy_service may find
ValidSchema ==
    SchemaJson(JInput(JArray(<<JObject("path_image", "string", JStr("True"))>>),
                      JArray(<<JObject("limit", "integer", JStr("False"))>>), Absent),
               JArray(<<JObject("accuracy", "float", JStr("True"))>>))
DeploySchemas ==
    {ValidSchema,
     SchemaJson(NoInput, ValidSchema.output),
     SchemaJson(ValidSchema.input, Absent),
     SchemaJson(NoInput, Absent),
     SchemaJson(ValidSchema.input, JArray(<<JObject("accuracy", "float", JNum("1"))>>)),
     SchemaJson(ValidSchema.input, JArray(<<JObject("accuracy", "float", JBool("true"))>>)),
     SchemaJson(JInput(Absent, Absent, Absent), JArray(<<>>))}

DeployIdle ==
    /\ arch = "amd64"
    /\ history = <<>>
    /\ conf = DeployServiceConf("mnist", CHOOSE res \in Resources : res.gpu_limit = None)
    /\ dpc = "idle"
    /\ deploys = 0
    /\ uuid = None
    /\ stage = None
    /\ commands = <<>>
    /\ requests = <<>>
    /\ dresult = None
    /\ reported = FALSE

\* format!("{}-{}", conf.service_name, uuid)
ServiceId_NameOnly(name, u) == name
ServiceId(name, u) == name \o "-" \o u
\* format!("{}:{}", IMAGE_REGISTRY, service_id)
ImageUri(service_id) == IMAGE_REGISTRY \o ":" \o service_id

service_id == ServiceId(conf.service_name, uuid)
image_uri == ImageUri(service_id)

\* the stages of build_tag_and_push_image and the error each is given
Stages == <<"build", "tag", "login", "push">>
StageError(st) ==
    CASE st = "build" -> "Err: Failed to build image"
      [] st = "tag" -> "Err: Failed to tag image"
      [] st = "login" -> "Err: Failed to login to image registry"
      [] st = "push" -> "Err: Failed to push image"
\* the argument list of the command a stage runs
StageArgs(st, sid, uri) ==
    CASE st = "build" -> <<"podman", "build", "-t", sid, ".">>
      [] st = "tag" -> <<"podman", "tag", sid, uri>>
      [] st = "login" -> <<"podman", "login", "ghcr.io", "--username", "USERNAME",
                           "--password", REGISTRY_TOKEN>>
      [] st = "push" -> <<"podman", "push", uri>>
\* the stage that follows a successful stage; "done" after the last
NextStage(st) ==
    CASE st = "build" -> "tag" [] st = "tag" -> "login" [] st = "login" -> "push"
      [] st = "push" -> "done"
\* what a failed stage makes of the pipeline: the `?` returns at once
AfterFailure_GoOn(st) == NextStage(st)
AfterFailure(st) == "failed"

DeployEnds(result) ==
    /\ dpc' = "ended"
    /\ dresult' = result

\* the caller invokes deploy_service; the token assert, ensure_podman_running,
\* and the fresh service_id / image_uri
DeployStart(name, res, a, outcome) ==
    /\ dpc \in {"idle", "ended"}
    /\ deploys < MaxDeploys
    /\ deploys' = deploys + 1
    /\ history' = IF dpc = "ended"
                    THEN Append(history,
                                [service_name |-> conf.service_name,
                                 image_uri |-> IF uuid = None THEN None ELSE image_uri,
                                 ok |-> dresult = "Ok"])
                    ELSE history
    /\ arch' = a
    /\ conf' = DeployServiceConf(name, res)
    /\ contents' = SchemaJson(NoInput, Absent)
    /\ service_params' = NoResult
    /\ commands' = <<>>
    /\ requests' = <<>>
    /\ reported' = FALSE
    /\ CASE outcome = "token" ->
              /\ DeployEnds("panic: Environment variable GHCR_TOKEN must be set")
              /\ uuid' = None /\ stage' = None
         [] outcome = "podman" ->
              /\ DeployEnds("Err: Failed to ensure Podman is running")
              /\ uuid' = None /\ stage' = None
         [] outcome = "ok" ->
              /\ dpc' = "pipeline"
              /\ dresult' = None
              /\ uuid' = Uuids[deploys + 1]
              /\ stage' = Stages[1]
    /\ UNCHANGED npc
    /\ UNCHANGED <<urlVars, runVars>>

\* run_command of the current stage of build_tag_and_push_image
RunStage(ok) ==
    /\ dpc = "pipeline"
    /\ stage \in {Stages[i] : i \in 1..Len(Stages)}
    /\ commands' = Append(commands,
                          [stage |-> stage, args |-> StageArgs(stage, service_id, image_uri),
                           ok |-> ok])
    /\ stage' = IF ok THEN NextStage(stage) ELSE AfterFailure(stage)
    /\ UNCHANGED <<arch, conf, dpc, deploys, uuid, requests, dresult, reported, history>>
    /\ UNCHANGED <<urlVars, runVars, normVars>>

\* build_tag_and_push_image returns Err: deploy_service logs and returns it
PipelineFailed ==
    /\ dpc = "pipeline"
    /\ stage = "failed"
    /\ DeployEnds(StageError(commands[Len(commands)].stage))
    /\ UNCHANGED <<arch, conf, deploys, uuid, stage, commands, requests, reported, history>>
    /\ UNCHANGED <<urlVars, runVars, normVars>>

\* build_tag_and_push_image returns Ok: config.json is opened, read and
\* normalized by build_service_params_from_json
ReadSchema(outcome, json) ==
    /\ dpc = "pipeline"
    /\ stage = "done"
    /\ CASE outcome = "ok" ->
              /\ contents' = json
              /\ service_params' = build_service_params_from_json(json)
              /\ IF service_params'.ok
                   THEN dpc' = "send" /\ UNCHANGED dresult
                   ELSE DeployEnds("Err: Failed to build service params")
         [] outcome = "open" ->
              /\ DeployEnds("panic: Failed to open config.json")
              /\ UNCHANGED <<contents, service_params>>
         [] outcome = "read" ->
              /\ DeployEnds("panic: Failed to read config.json")
              /\ UNCHANGED <<contents, service_params>>
         [] outcome = "json" ->
              /\ DeployEnds("panic: Failed to parse config.json contents")
              /\ UNCHANGED <<contents, service_params>>
    /\ UNCHANGED <<arch, conf, deploys, uuid, stage, commands, requests, reported, history>>
    /\ UNCHANGED npc
    /\ UNCHANGED <<urlVars, runVars>>

\* UploadHandlerParams.image_uri: image_uri.clone()
RequestImageUri_ServiceId(sid, uri) == sid
RequestImageUri(sid, uri) == uri

\* the UploadHandlerParams sent to /upload_service
UploadRequest(ok) ==
    [base |-> SERVER_URL, endpoint |-> "/upload_service", method |-> "POST",
     service_name |-> conf.service_name,
     image_uri |-> RequestImageUri(service_id, image_uri),
     resource_request |-> ResourceRequest(conf),
     service_schema |-> service_params, ok |-> ok]

\* what a failed endpoint.send() makes of deploy_service: the `?` returns the error
SendFailed_Retry ==
    /\ UNCHANGED <<dpc, dresult, reported>>
SendFailed ==
    /\ DeployEnds("Err: Failed upload_service request")
    /\ UNCHANGED reported

\* endpoint.send().await; on success "has been deployed successfully", Ok(())
SendUpload(ok) ==
    /\ dpc = "send"
    /\ requests' = Append(requests, UploadRequest(ok))
    /\ IF ok
         THEN /\ reported' = TRUE
              /\ DeployEnds("Ok")
         ELSE SendFailed
    /\ UNCHANGED <<arch, conf, deploys, uuid, stage, commands, history>>
    /\ UNCHANGED <<urlVars, runVars, normVars>>

(***************************************************************************)
(* Specifications.                                                         *)
(***************************************************************************)
UrlInit == UrlIdle /\ RunIdle /\ DeployIdle /\ NormIdle
UrlNext ==
    \/ \E c \in Callers : GetServerUrl(c)
    \/ \E c \in Callers : AcquirePermit(c)
    \/ \E c \in Callers : AcquireClosed(c)
    \/ \E c \in Callers, ok \in BOOLEAN : ProbeLocal(c, ok)
    \/ \E c \in Callers, ok \in BOOLEAN : ProbeRemote(c, ok)
    \/ \E c \in Callers : SetValue(c)
    \/ \E c \in Callers : SendRequest(c)
SpecUrl == UrlInit /\ [][UrlNext]_vars

RunInit == UrlIdle /\ RunStart /\ DeployIdle /\ NormIdle
RunNext ==
    \/ \E outcome \in {"ok", "open", "read", "parse"} : LoadConfig(outcome)
    \/ SelectTests
    \/ \E outcome \in {"ok", "read", "parse"} : Validate(outcome)
    \/ \E ok \in BOOLEAN : ConnectRedis(ok)
    \/ SpawnService
    \/ Sleep
    \/ \E outcome \in PostOutcomes : DispatchRemote(outcome)
    \/ \E outcome \in PublishOutcomes : DispatchLocal(outcome)
    \/ \E outcome \in PublishOutcomes : PublishStop(outcome)
    \/ FinishRemote
    \/ ServiceStarts
    \/ ServiceExits
SpecRun == RunInit /\ [][RunNext]_vars

\* the steps of run_tests itself; each awaits at most one external call
RunSteps ==
    \/ \E outcome \in {"ok", "open", "read", "parse"} : LoadConfig(outcome)
    \/ SelectTests
    \/ \E outcome \in {"ok", "read", "parse"} : Validate(outcome)
    \/ \E ok \in BOOLEAN : ConnectRedis(ok)
    \/ SpawnService
    \/ Sleep
    \/ \E outcome \in PostOutcomes : DispatchRemote(outcome)
    \/ \E outcome \in PublishOutcomes : DispatchLocal(outcome)
    \/ \E outcome \in PublishOutcomes : PublishStop(outcome)
    \/ FinishRemote
\* run_tests where every external call returns: a step that can be taken is taken
SpecRunLive == RunInit /\ [][RunNext]_vars /\ WF_vars(RunSteps)

DeployInit == UrlIdle /\ RunIdle /\ DeployIdle /\ NormIdle
DeployNext ==
    \/ \E name \in ServiceNames, res \in Resources, a \in Archs,
          outcome \in {"ok", "token", "podman"} :
          DeployStart(name, res, a, outcome)
    \/ \E ok \in BOOLEAN : RunStage(ok)
    \/ PipelineFailed
    \/ \E outcome \in {"ok", "open", "read", "json"}, json \in DeploySchemas :
          ReadSchema(outcome, json)
    \/ \E ok \in BOOLEAN : SendUpload(ok)
SpecDeploy == DeployInit /\ [][DeployNext]_vars

NormInit == UrlIdle /\ RunIdle /\ DeployIdle /\ NormStart
NormNext == Normalize
SpecNorm == NormInit /\ [][NormNext]_vars

Init == UrlInit \/ RunInit \/ NormInit
Next == UrlNext \/ RunNext \/ DeployNext \/ NormNext
Spec == Init /\ [][Next]_vars

(***************************************************************************)
(* Properties.                                                             *)
(***************************************************************************)
\* ---- helpers of the properties ----
Returned(c) == cpc[c] \in {"returned", "sent"}
LoadFailures == {"Err: Failed to open TOML file", "panic: Failed to read TOML file",
                 "panic: Failed to parse TOML"}
UnknownTestPanic == "panic: Test name not found in the config"
ValidationPanic == "panic: Validation Error"
\* the events of the dispatch loop: one per test taken
IsDispatch(e) == e.op = "post" \/ (e.op = "publish" /\ e.kind = "envelope")
IsStop(e) == e.op = "publish" /\ e.kind = StopMessage
DispatchEvents == SelectSeq(events, IsDispatch)
ExecutionStarted == events # <<>> \/ py # "none"
NoDuplicates(seq) == \A i, j \in 1..Len(seq) : i # j => seq[i] # seq[j]
Range(seq) == {seq[i] : i \in 1..Len(seq)}

\* C1: whatever the interleaving of the callers of get_server_url, two probe
\* sequences never run at once and none starts after one has succeeded (so a
\* probe sequence that succeeds is the only one); the cell is written at most
\* once, and once written neither it nor the number of probe sequences changes;
\* every caller that returns, having run the resolution, waited for it or called
\* after it, returns the cached url.
C1_SingleFlight ==
    /\ [](/\ writes <= 1
          /\ loads <= panics + 1
          /\ (panics = 0 => loads <= 1)
          /\ (Initialized => writes = 1 /\ loads = panics + 1)
          /\ Initialized => SERVER_URL \in {LOCAL_SERVER_URL, REMOTE_SERVER_URL}
          /\ \A c \in Callers : Returned(c) => Initialized /\ cret[c] = SERVER_URL)
    /\ [][Initialized => SERVER_URL' = SERVER_URL /\ loads' = loads /\ writes' = writes]_vars

\* three callers have returned: one ran the only probe sequence, one waited
\* for it, one called after the cell was written
C1_Witness ==
    \E a, b, c \in Callers :
        /\ cpath[a] = "init" /\ cpath[b] = "waited" /\ cpath[c] = "fast"
        /\ Returned(a) /\ Returned(b) /\ Returned(c)
        /\ loads = 1 /\ writes = 1

\* C2: run_tests takes no execution step (spawn, publish, post) unless
\* validate_tests passed every selected test; after a validation panic nothing
\* has been spawned, published or posted, for no test.
C2_ValidationBeforeExecution ==
    /\ ExecutionStarted =>
          /\ validated = tests_to_run
          /\ validate_tests(tests_to_run, config, schemaBody)[2].kind = "ok"
    /\ validate_tests(tests_to_run, config, schemaBody)[2].kind # "ok" =>
          /\ ~ExecutionStarted
          /\ rpc \in {"load", "select", "validate", "ended"}
    /\ rresult = ValidationPanic => ~ExecutionStarted /\ rpc = "ended"

\* validation panicked on the second selected test, the first having passed
C2_Witness ==
    /\ rresult = ValidationPanic
    /\ Len(tests_to_run) = 2
    /\ validated = <<tests_to_run[1]>>
    /\ events = <<>>

\* C3: in local mode the effects of run_tests are, in this order: the spawn, the
\* sleep, one publish on "test-channel" per selected test in order, and then one
\* publish of "stop"; a failed publish changes nothing of it, and a run that got
\* to the spawn ends with Ok and the whole sequence.
C3_LocalSequence ==
    ~remote =>
        LET n == Len(tests_to_run) IN
        /\ Len(events) <= n + 3
        /\ \A k \in 1..Len(events) :
              /\ k = 1 => events[k] = SpawnEvent
              /\ k = 2 => events[k] = SleepEvent
              /\ (k > 2 /\ k <= n + 2) =>
                    /\ events[k].op = "publish"
                    /\ events[k].target = TestChannel
                    /\ events[k].kind = "envelope"
                    /\ events[k].test = tests_to_run[k - 2]
              /\ k = n + 3 => events[k].op = "publish"
                              /\ events[k].target = TestChannel
                              /\ events[k].kind = StopMessage
        /\ (rpc = "ended" /\ events # <<>>) => rresult = "Ok" /\ Len(events) = n + 3
        /\ rresult = "Ok" => Len(events) = n + 3

\* a local run of two tests ended: the first publish failed, the second and
\* the stop were attempted all the same
C3_Witness ==
    /\ ~remote
    /\ rresult = "Ok"
    /\ Len(tests_to_run) = 2
    /\ Len(events) = 5
    /\ events[3].outcome = "error"
    /\ events[4].outcome = "ok"
    /\ IsStop(events[5])

C5_RemoteOnlyPosts ==
    remote =>
        /\ py = "none"
        /\ Len(events) = idx
        /\ idx <= Len(tests_to_run)
        /\ \A k \in 1..Len(events) :
              /\ events[k].op = "post"
              /\ events[k].target = CALL_SERVICE_URL \o config.service
              /\ events[k].test = tests_to_run[k]

\* a remote run of two tests ended with Ok
C5_Witness ==
    /\ remote
    /\ rresult = "Ok"
    /\ Len(events) = 2
    /\ config.service = "a3"

\* C6: with a requested name that is no key of the test table run_tests gets no
\* further than the selection, where it panics: nothing is validated, spawned,
\* published or posted; with a requested name that is a key, the selection is
\* that one test.
C6_RequestedTest ==
    test_name # None =>
        /\ test_name \notin DOMAIN config.test =>
              /\ rpc \in {"load", "select", "ended"}
              /\ rpc = "ended" => rresult \in LoadFailures \cup {UnknownTestPanic}
              /\ tests_to_run = <<>> /\ validated = <<>> /\ ~ExecutionStarted
        /\ test_name \in DOMAIN config.test =>
              /\ rresult # UnknownTestPanic
              /\ (rpc \notin {"load", "select"} /\ rresult \notin LoadFailures) =>
                    tests_to_run = <<test_name>>

\* an unknown name was requested of a manifest that holds tests: the panic
C6_Witness ==
    /\ test_name = "baz_test"
    /\ DOMAIN config.test = TestNames
    /\ rresult = UnknownTestPanic

C8_PipelineOrder ==
    /\ Len(commands) <= Len(Stages)
    /\ \A k \in 1..Len(commands) :
          /\ commands[k].stage = Stages[k]
          /\ k < Len(commands) => commands[k].ok
    /\ (stage = "failed") =>
          commands # <<>> /\ ~commands[Len(commands)].ok
    /\ (commands # <<>> /\ ~commands[Len(commands)].ok /\ dpc = "ended") =>
          dresult = StageError(commands[Len(commands)].stage)
    /\ \A k \in 1..Len(Stages) :
          dresult = StageError(Stages[k]) =>
              Len(commands) = k /\ ~commands[k].ok

\* the login failed after build and tag: the pipeline ended there
C8_Witness ==
    /\ dresult = "Err: Failed to login to image registry"
    /\ Len(commands) = 3
    /\ commands[1].ok /\ commands[2].ok /\ ~commands[3].ok

\* C9: an upload_service request is sent only after the four stages ran and
\* succeeded, the push last, and it carries the image reference that was tagged
\* and pushed; after a failed stage no request is sent.
C9_UploadAfterPush ==
    /\ requests # <<>> =>
          /\ Len(commands) = Len(Stages)
          /\ \A k \in 1..Len(commands) : commands[k].ok
          /\ commands[4].stage = "push"
          /\ \A r \in 1..Len(requests) :
                /\ requests[r].image_uri = commands[4].args[3]
                /\ requests[r].image_uri = commands[2].args[4]
                /\ requests[r].image_uri =
                       IMAGE_REGISTRY \o ":" \o conf.service_name \o "-" \o uuid
    /\ (\E k \in 1..Len(commands) : ~commands[k].ok) => requests = <<>>
    /\ dpc = "send" => Len(commands) = Len(Stages) /\ commands[4].ok

\* the request was sent for the second invocation's image
C9_Witness ==
    /\ deploys = 2
    /\ Len(requests) = 1
    /\ requests[1].image_uri = "ghcr.io/alexlatif/wondera:a3-9b2c4e1f"
    /\ commands[4].args = <<"podman", "push", "ghcr.io/alexlatif/wondera:a3-9b2c4e1f">>

\* C10: an invocation of deploy_service sends at most one upload_service
\* request; when it fails the invocation ends with the error, no request and no
\* stage being tried again; the service is reported deployed only after the
\* request succeeded.
C10_OneUploadNoRetry ==
    /\ Len(requests) <= 1
    /\ (requests # <<>> /\ ~requests[1].ok) =>
          /\ dpc = "ended"
          /\ dresult = "Err: Failed upload_service request"
          /\ ~reported
          /\ Len(commands) = Len(Stages)
    /\ reported => Len(requests) = 1 /\ requests[1].ok /\ dresult = "Ok"
    /\ dresult = "Ok" => reported

\* the request failed: the invocation ended with the error
C10_Witness ==
    /\ Len(requests) = 1
    /\ ~requests[1].ok
    /\ dresult = "Err: Failed upload_service request"
    /\ Len(commands) = 4

(***************************************************************************)
(* Endpoint resolver: what lazy_load_server_url returns.                   *)
(***************************************************************************)
\* the probes issued by the lazy_load_server_url of caller c, in order
ProbesOf(c) == SelectSeq(probeLog, LAMBDA e : e[1] = c)
LocalUp(c) == <<c, LOCAL_SERVER_URL, TRUE>>
LocalDown(c) == <<c, LOCAL_SERVER_URL, FALSE>>
RemoteUp(c) == <<c, REMOTE_SERVER_URL, TRUE>>
RemoteDown(c) == <<c, REMOTE_SERVER_URL, FALSE>>
AllProbesFailed == \A i \in 1..Len(probeLog) : ~probeLog[i][3]

\* C15: lazy_load_server_url returns the local url exactly when its local
\* probe succeeded, and then the remote url was not probed; it returns the
\* remote url exactly when its local probe failed and its remote probe
\* succeeded; the url it returns is one whose probe succeeded.
C15_ProbeDecidesUrl ==
    \A c \in Callers :
        /\ cval[c] \in {None, LOCAL_SERVER_URL, REMOTE_SERVER_URL}
        /\ cval[c] = LOCAL_SERVER_URL <=> ProbesOf(c) = <<LocalUp(c)>>
        /\ cval[c] = REMOTE_SERVER_URL <=> ProbesOf(c) = <<LocalDown(c), RemoteUp(c)>>
        /\ LocalUp(c) \in Range(ProbesOf(c)) =>
              /\ cval[c] = LOCAL_SERVER_URL
              /\ \A i \in 1..Len(ProbesOf(c)) : ProbesOf(c)[i][2] # REMOTE_SERVER_URL
        /\ cval[c] # None => <<c, cval[c], TRUE>> \in Range(ProbesOf(c))
        /\ cret[c] # None /\ cpath[c] = "init" => cret[c] = cval[c]

\* one caller found no server, a later one got the remote url after its
\* local probe failed
C15_Witness ==
    \E a, b \in Callers :
        /\ cpc[a] = "panicked"
        /\ cret[b] = REMOTE_SERVER_URL /\ cpath[b] = "init"
        /\ ProbesOf(b) = <<LocalDown(b), RemoteUp(b)>>

\* C16: when both probes of a resolution fail the resolution is fatal: it
\* returns no url and stores none, and the caller sends no control-plane
\* request; while no probe has succeeded the cell is empty, no caller has a
\* url and no request has been sent.
C16_NoServerIsFatal ==
    /\ \A c \in Callers :
          /\ ProbesOf(c) = <<LocalDown(c), RemoteDown(c)>> <=> cpc[c] = "panicked"
          /\ cpc[c] = "panicked" =>
                /\ cval[c] = None /\ cret[c] = None
                /\ \A i \in 1..Len(ctlRequests) : ctlRequests[i].caller # c
    /\ AllProbesFailed =>
          /\ SERVER_URL = None /\ writes = 0
          /\ \A c \in Callers : cret[c] = None
          /\ ctlRequests = <<>>
    /\ \A i \in 1..Len(ctlRequests) :
          /\ ctlRequests[i].base \in {LOCAL_SERVER_URL, REMOTE_SERVER_URL}
          /\ ctlRequests[i].base = SERVER_URL

\* every caller has resolved, and every resolution found both servers down
C16_Witness ==
    /\ \A c \in Callers : cpc[c] = "panicked"
    /\ Len(probeLog) = 2 * NCallers
    /\ AllProbesFailed
    /\ SERVER_URL = None /\ ctlRequests = <<>>

(***************************************************************************)
(* deploy_service: image references, commands and the schema file.         *)
(***************************************************************************)
\* the earlier invocations that got as far as making an image reference
PastRefs == SelectSeq(history, LAMBDA h : h.image_uri # None)

\* C11: any two invocations of deploy_service use different image
\* references, also for the same service name and after a failed deploy:
\* the reference of an invocation is used by no earlier invocation, and the
\* requests of an invocation carry its own reference.
C11_FreshImageReference ==
    /\ \A i, j \in 1..Len(PastRefs) :
          i # j => PastRefs[i].image_uri # PastRefs[j].image_uri
    /\ uuid # None =>
          /\ \A i \in 1..Len(PastRefs) : PastRefs[i].image_uri # image_uri
          /\ \A k \in 1..Len(requests) : requests[k].image_uri = image_uri
          /\ \A k \in 1..Len(commands) :
                commands[k].stage \in {"tag", "push"} => image_uri \in Range(commands[k].args)

\* a third deploy of one service name, after a failed and a successful one
C11_Witness ==
    /\ Len(PastRefs) = 2
    /\ ~PastRefs[1].ok /\ PastRefs[2].ok
    /\ PastRefs[1].service_name = conf.service_name
    /\ PastRefs[2].service_name = conf.service_name
    /\ uuid # None /\ Len(commands) = 4

\* C12: the registry credential is in the argument list of no external
\* command.
C12_CredentialNotInArguments ==
    \A k \in 1..Len(commands) : REGISTRY_TOKEN \notin Range(commands[k].args)

\* C13: with an architecture other than amd64 and arm64 no command is run;
\* with amd64 or arm64 the build command names the platform linux/amd64 or
\* linux/arm64.
C13_ArchSelectsPlatform ==
    /\ arch \notin {"amd64", "arm64"} => commands = <<>>
    /\ \A k \in 1..Len(commands) :
          commands[k].stage = "build" =>
              /\ "--platform" \in Range(commands[k].args)
              /\ ("linux/" \o arch) \in Range(commands[k].args)

\* the outcomes of deploy_service that a missing schema file, or one that
\* fails normalization, gives
SchemaFailures ==
    {"panic: Failed to open config.json", "panic: Failed to parse config.json contents",
     "Err: Failed to build service params"}

\* C14: a deploy that ends on a missing schema file or on a failed
\* normalization has run no external command and sent no request.
C14_SchemaFailureHasNoSideEffect ==
    dresult \in SchemaFailures => commands = <<>> /\ requests = <<>>

\* C17: every upload_service request goes to the url the endpoint resolver
\* chose: a probe sequence has filled the cell, and the base url of the
\* request is the url in the cell.
C17_UploadUsesResolvedUrl ==
    \A k \in 1..Len(requests) :
        /\ Initialized /\ loads >= 1
        /\ requests[k].base = SERVER_URL
        /\ requests[k].base \in {LOCAL_SERVER_URL, REMOTE_SERVER_URL}

(***************************************************************************)
(* build_service_params_from_json: the `required` flag and the sections.   *)
(***************************************************************************)
\* the representations of `required` the schema format allows, and the
\* flag each stands for
Recognized(r) ==
    \/ r.t = "bool"
    \/ r.t = "str" /\ r.v \in {"True", "true", "False", "false"}
TruthOf(r) == r.v \in {"True", "true"}
\* a value under `required` that is none of them
Unrecognized(r) == r.t # "absent" /\ ~Recognized(r)

\* a schema file without the key `input` / `output`
LacksInput(json) == ~json.input.present
LacksOutput(json) == json.output.kind = "absent"

Groups(json) == <<json.input.path, json.input.query, json.input.body, json.output>>
Elems(json) == UNION {Range(Groups(json)[g].items) : g \in 1..4}
\* a schema file with both sections, arrays of objects with name and dtype
WellFormed(json) ==
    /\ ~LacksInput(json) /\ ~LacksOutput(json)
    /\ \A g \in 1..3 : Groups(json)[g].kind \in {"absent", "array"}
    /\ json.output.kind = "array"
    /\ \A e \in Elems(json) : e.obj /\ e.dtype # None
\* the flags of a converted array are those its elements stand for
FlagsOf(group, option) ==
    /\ option.some <=> group.kind = "array"
    /\ Len(option.params) = Len(group.items)
    /\ \A i \in 1..Len(group.items) :
          /\ option.params[i].name = group.items[i].name
          /\ option.params[i].required = TruthOf(group.items[i].required)

\* C18: a schema file whose `required` values are all booleans or one of
\* "True", "true", "False", "false" is normalized, and each flag is true for
\* true, "True", "true" and false for false, "False", "false".
C18_RequiredRepresentations ==
    (/\ npc = "done"
     /\ WellFormed(contents)
     /\ \A e \in Elems(contents) : Recognized(e.required))
    => /\ service_params.ok
       /\ FlagsOf(contents.input.path, service_params.input.path)
       /\ FlagsOf(contents.input.query, service_params.input.query)
       /\ FlagsOf(contents.input.body, service_params.input.body)
       /\ \A q \in service_params.output :
             \E e \in Range(contents.output.items) :
                 e.name = q.name /\ TruthOf(e.required) = q.required

\* C19: a schema file with a `required` value that is neither a boolean nor
\* one of the four strings is not normalized: the call returns an error that
\* carries a parameter with such a value.
C19_UnrecognizedRequiredIsAnError ==
    (/\ npc = "done"
     /\ WellFormed(contents)
     /\ \E e \in Elems(contents) : Unrecognized(e.required))
    => /\ ~service_params.ok
       /\ service_params.culprit \in Elems(contents)
       /\ ~Recognized(service_params.culprit.required)

\* build_service_params_from_json gives an error, and no ServiceParams, for
\* every schema file without `input` or without `output`
MissingSectionIsAnError ==
    \A json \in SchemaJsons :
        LacksInput(json) \/ LacksOutput(json) =>
            LET r == build_service_params_from_json(json)
            IN  /\ ~r.ok
                /\ r.err \in {"Missing input field", "Missing output field"}
                /\ r.input = NoServiceInput /\ r.output = {}

\* C20: a schema file without `input` or without `output` makes
\* build_service_params_from_json return an error and no ServiceParams, and
\* the deploy that read it ends with that error without a request sent.
C20_MissingSectionStopsCommand ==
    /\ MissingSectionIsAnError
    /\ (/\ service_params # NoResult
         /\ (LacksInput(contents) \/ LacksOutput(contents)))
        => /\ ~service_params.ok
           /\ service_params.input = NoServiceInput /\ service_params.output = {}
           /\ dresult = "Err: Failed to build service params"
           /\ requests = <<>> /\ ~reported

\* a deploy read a schema file without `output` and ended
C20_Witness ==
    /\ service_params.err = "Missing output field"
    /\ ~LacksInput(contents) /\ LacksOutput(contents)
    /\ dresult = "Err: Failed to build service params"
    /\ requests = <<>>

\* the last element of an array that has a given name
LastOf(items, name) ==
    items[CHOOSE k \in 1..Len(items) :
            /\ items[k].name = name
            /\ \A j \in (k + 1)..Len(items) : items[j].name # name]
\* every element of the schema file is convertible by itself
EachConvertible(json) ==
    /\ ~LacksInput(json)
    /\ \A g \in 1..3 : ConvertGroup(Groups(json)[g]).ok
    /\ json.output.kind = "array"
    /\ \A e \in Range(json.output.items) : ConvertParam(e).ok

\* C21: the normalized `output` is a mapping whose keys are exactly the
\* names in the array, each key mapping to a descriptor of that name; entries
\* that share a name are no error, and the mapping holds the last of them.
C21_OutputLastWins ==
    npc = "done" =>
        LET items == contents.output.items
            output == service_params.output
        IN  /\ EachConvertible(contents) => service_params.ok
            /\ service_params.ok =>
                  /\ {q.name : q \in output} = {e.name : e \in Range(items)}
                  /\ \A q, r \in output : q.name = r.name => q = r
                  /\ \A q \in output :
                        /\ q.dtype = LastOf(items, q.name).dtype
                        /\ q.required = convert_required(LastOf(items, q.name).required.v)

\* two output entries named accuracy, the first required and the second not
C21_Witness ==
    /\ npc = "done" /\ service_params.ok
    /\ contents.output.items = <<JObject("accuracy", "float", JStr("True")),
                                 JObject("accuracy", "float", JStr("False"))>>
    /\ service_params.output = {Param("accuracy", "float", FALSE)}

(***************************************************************************)
(* validate_tests: what a fixture must hold.                               *)
(***************************************************************************)
ValidationRan == vresult # NoVerdict
BodyParams == schemaBody.params
\* the literal a declared type asks for
LiteralKind(dtype) ==
    CASE dtype = "string" -> "str" [] dtype = "int" -> "int" [] dtype = "float" -> "float"
      [] OTHER -> "any"
\* test t lacks the required parameter p / holds a value of another type for p
LacksRequired(t, p) == p.required /\ p.name \notin DOMAIN config.test[t]
WrongType(t, p) ==
    /\ p.name \in DOMAIN config.test[t]
    /\ p.dtype \in {"string", "int", "float"}
    /\ config.test[t][p.name].kind # LiteralKind(p.dtype)
\* the failing checks <<i, k>>: the i-th selected test against the k-th parameter
Faults ==
    {f \in (1..Len(tests_to_run)) \X (1..Len(BodyParams)) :
        \/ LacksRequired(tests_to_run[f[1]], BodyParams[f[2]])
        \/ WrongType(tests_to_run[f[1]], BodyParams[f[2]])}
\* the first of them: tests in the order selected, parameters in schema order
FirstFault ==
    CHOOSE f \in Faults :
        \A g \in Faults : g = f \/ f[1] < g[1] \/ (f[1] = g[1] /\ f[2] < g[2])
FirstTest == tests_to_run[FirstFault[1]]
FirstParam == BodyParams[FirstFault[2]]
MissingVerdict(t, p) == Verdict("missing", t, p.name, p.dtype, NoValue)
TypeVerdict(t, p) == Verdict("type", t, p.name, p.dtype, config.test[t][p.name])

\* C22 as stated: for every selected test that lacks a required body
\* parameter, the validation error names that test and that parameter.
C22_EveryMissingParameterIsNamed ==
    ValidationRan =>
        \A t \in Range(tests_to_run), p \in Range(BodyParams) :
            LacksRequired(t, p) => vresult = MissingVerdict(t, p)

\* C22 amended: a selected test that lacks a required body parameter makes
\* validation fail; the error is that of the first failing check, and names
\* the test and the missing parameter when that check is a missing one.
C22_FirstMissingParameterIsNamed ==
    ValidationRan =>
        /\ (\E t \in Range(tests_to_run), p \in Range(BodyParams) : LacksRequired(t, p))
              => rresult = ValidationPanic /\ vresult.kind \in {"missing", "type"}
        /\ Faults # {} /\ LacksRequired(FirstTest, FirstParam)
              => vresult = MissingVerdict(FirstTest, FirstParam)
        /\ vresult.kind = "missing"
              => Faults # {} /\ vresult = MissingVerdict(FirstTest, FirstParam)
                 /\ LacksRequired(FirstTest, FirstParam)

\* the second selected test lacks the required path_image, the first is sound
C22_Witness ==
    /\ Len(tests_to_run) = 2
    /\ vresult.kind = "missing" /\ vresult.test = tests_to_run[2]
    /\ vresult.param = "path_image"
    /\ validated = <<tests_to_run[1]>>
    /\ rresult = ValidationPanic /\ events = <<>>

\* C23 as stated: for every selected test and declared body parameter whose
\* value in the fixture is not of the declared type, the validation error
\* names that test, that field, the declared type and the value.
C23_EveryTypeMismatchIsNamed ==
    ValidationRan =>
        \A t \in Range(tests_to_run), p \in Range(BodyParams) :
            WrongType(t, p) => vresult = TypeVerdict(t, p)

\* C23 amended: a value that is not of the declared type (string, int,
\* float; an integer for a float included), of a required or an optional
\* parameter, makes validation fail; the error is that of the first failing
\* check, and names test, field, declared type and value when that check is
\* a type check.
C23_FirstTypeMismatchIsNamed ==
    ValidationRan =>
        /\ (\E t \in Range(tests_to_run), p \in Range(BodyParams) : WrongType(t, p))
              => rresult = ValidationPanic /\ vresult.kind \in {"missing", "type"}
        /\ Faults # {} /\ WrongType(FirstTest, FirstParam)
              => vresult = TypeVerdict(FirstTest, FirstParam)
        /\ vresult.kind = "type"
              => Faults # {} /\ vresult = TypeVerdict(FirstTest, FirstParam)
                 /\ WrongType(FirstTest, FirstParam)

\* an optional float parameter holds an integer
C23_Witness ==
    /\ vresult.kind = "type" /\ vresult.dtype = "float" /\ vresult.found = IntValue("1")
    /\ \E k \in 1..Len(BodyParams) :
          BodyParams[k].name = vresult.param /\ ~BodyParams[k].required
    /\ rresult = ValidationPanic /\ events = <<>>

\* every required parameter is in the fixture of t with its declared type
GoodRequired(t) ==
    \A p \in Range(BodyParams) : p.required => ~LacksRequired(t, p) /\ ~WrongType(t, p)
\* no check of t fails
Good(t) == \A p \in Range(BodyParams) : ~LacksRequired(t, p) /\ ~WrongType(t, p)

\* C24 as stated: a fixture in which every required body parameter is
\* present with its declared type passes validation.
C24_RequiredWellTypedPasses ==
    ValidationRan =>
        /\ vresult.kind \in {"missing", "type"} => ~GoodRequired(vresult.test)
        /\ (\A t \in Range(tests_to_run) : GoodRequired(t)) => vresult = ValidOk

\* C24 amended: a fixture passes when every required body parameter is
\* present and every declared parameter it holds, required or optional, has
\* its declared type.
C24_WellTypedPasses ==
    ValidationRan =>
        /\ vresult.kind \in {"missing", "type"} => ~Good(vresult.test)
        /\ (\A t \in Range(tests_to_run) : Good(t))
              => vresult = ValidOk /\ validated = tests_to_run
        /\ \A i \in 1..Len(tests_to_run) :
              (\A j \in 1..i : Good(tests_to_run[j])) => Len(validated) >= i

\* two fixtures pass, one of them without the optional accuracy
C24_Witness ==
    /\ schemaBody = SomeBody(<<Param("path_image", "string", TRUE),
                               Param("accuracy", "float", FALSE)>>)
    /\ Len(tests_to_run) = 2 /\ validated = tests_to_run /\ vresult = ValidOk
    /\ \E t \in Range(tests_to_run) : "accuracy" \notin DOMAIN config.test[t]
    /\ \E t \in Range(tests_to_run) : "accuracy" \in DOMAIN config.test[t]
    /\ rresult = "Ok"

\* C30: a present field is type-checked only for the declared types string,
\* int and float; a parameter of another declared type passes with any
\* value, and only its presence, when required, is checked.
C30_OnlyThreeTypesAreChecked ==
    ValidationRan =>
        /\ vresult.kind = "type" => vresult.dtype \in {"string", "int", "float"}
        /\ (\A p \in Range(BodyParams) : p.dtype \notin {"string", "int", "float"}) =>
              /\ vresult.kind \in {"ok", "missing"}
              /\ vresult = ValidOk <=>
                    \A t \in Range(tests_to_run), p \in Range(BodyParams) :
                        ~LacksRequired(t, p)

\* a parameter declared `integer` holds a string in one fixture and a float
\* in the other, and both pass
C30_Witness ==
    /\ schemaBody = SomeBody(<<Param("accuracy", "integer", TRUE)>>)
    /\ Len(tests_to_run) = 2 /\ validated = tests_to_run /\ vresult = ValidOk
    /\ config.test[tests_to_run[1]]["accuracy"].kind = "str"
    /\ config.test[tests_to_run[2]]["accuracy"].kind = "float"
    /\ rresult = "Ok"

(***************************************************************************)
(* deploy_service: the resource quantities of the request.                 *)
(***************************************************************************)
\* C25: in every upload request the memory limit is the memory value asked
\* for followed by `Mi`, and the cpu and gpu limits are the values asked for
\* as bare numeric strings.
C25_MemoryInMi ==
    \A k \in 1..Len(requests) :
        LET rr == requests[k].resource_request
        IN  /\ rr.memory_limit = conf.memory_limit \o "Mi"
            /\ conf.cpu_limit # None => rr.cpu_limit = conf.cpu_limit
            /\ conf.gpu_limit # None => rr.gpu_limit = conf.gpu_limit

(***************************************************************************)
(* run_tests: phases, the service task, the dispatched bodies.             *)
(***************************************************************************)
\* the phase of the invocation: Start before the manifest is read, Failed
\* after a fatal error, Draining once every selected test has been dispatched
Phase ==
    CASE rpc \in {"idle", "load"} -> "Start"
      [] rpc \in {"select", "validate"} -> "Loaded"
      [] rpc = "redis" -> "Validated"
      [] rpc \in {"spawn", "sleep"} -> "LocalRunning"
      [] rpc = "loop" /\ idx < Len(tests_to_run) ->
            IF remote THEN "RemoteInvoking" ELSE "LocalRunning"
      [] rpc = "loop" /\ idx >= Len(tests_to_run) -> "Draining"
      [] rpc = "ended" /\ rresult = "Ok" -> "Done"
      [] OTHER -> "Failed"
\* the phases a phase may be left for
PhaseOrder ==
    {<<"Start", "Loaded">>, <<"Loaded", "Validated">>,
     <<"Validated", "LocalRunning">>, <<"Validated", "RemoteInvoking">>,
     <<"LocalRunning", "Draining">>, <<"RemoteInvoking", "Draining">>,
     <<"Draining", "Done">>}
    \cup {<<p, "Failed">> : p \in {"Start", "Loaded", "Validated", "RemoteInvoking"}}
\* with no test selected the remote loop has nothing to invoke
EmptyRemote == <<"Validated", "Draining">>
PhaseStep ==
    /\ remote' = remote
    /\ Phase' # Phase =>
          \/ <<Phase, Phase'>> \in PhaseOrder
          \/ <<Phase, Phase'>> = EmptyRemote /\ remote /\ tests_to_run = <<>>
    /\ Phase' = "LocalRunning" => ~remote
    /\ Phase' = "RemoteInvoking" => remote

\* C26: an invocation goes through its phases only in the order Loaded,
\* Validated, one of LocalRunning and RemoteInvoking as the remote flag says,
\* Draining, Done, and re-enters none; when every external call returns it
\* reaches Done or ends in a fatal error.
C26_PhaseOrder ==
    /\ [][PhaseStep]_vars
    /\ <>(Phase \in {"Done", "Failed"})

\* a remote run of two tests is done
C26_Witness ==
    /\ Phase = "Done" /\ remote /\ Len(tests_to_run) = 2
    /\ Len(DispatchEvents) = 2

\* what the orchestrator does to the world
OrchestratorOps == {"spawn", "sleep", "publish", "post"}

\* the local loop and the stop sentinel can go on in this state
LocalCanGoOn ==
    /\ (rpc = "loop" /\ ~remote /\ idx < Len(tests_to_run))
          => ENABLED DispatchLocal("ok")
    /\ (rpc = "loop" /\ ~remote /\ idx = Len(tests_to_run))
          => ENABLED PublishStop("ok")
\* a step of run_tests starts the service at most, a step of the service
\* is no step of run_tests
ServiceLeftAlone ==
    /\ (rpc' # rpc \/ events' # events)
          => (py' = py \/ (py = "none" /\ py' = "scheduled"))
    /\ (py' # py /\ py # "none")
          => (rpc' = rpc /\ events' = events /\ rresult' = rresult)

\* C27: in local mode the publish loop and the stop sentinel can be taken
\* whatever the state of the service process, no step of run_tests waits
\* for that process or ends it, and what run_tests does to the world is
\* spawn, sleep, publish and post only.
C27_ServiceNotAwaited ==
    /\ [](LocalCanGoOn /\ \A i \in 1..Len(events) : events[i].op \in OrchestratorOps)
    /\ [][ServiceLeftAlone]_vars

\* run_tests returned Ok in local mode and the service is still running
C27_Witness ==
    /\ rresult = "Ok" /\ ~remote /\ py = "running"
    /\ Len(tests_to_run) = 2
    /\ IsStop(events[Len(events)])

\* C28: no step changes the manifest's test table, and the body dispatched
\* for a test is the test's fixture as the manifest has it.
C28_BodyIsFixture ==
    /\ [][config' = config]_vars
    /\ [](\A i \in 1..Len(events) :
             IsDispatch(events[i]) => events[i].body = config.test[events[i].test])

\* a published body holds accuracy, which the schema does not declare
C28_Witness ==
    /\ schemaBody = SomeBody(<<Param("path_image", "string", TRUE)>>)
    /\ \E i \in 1..Len(events) :
          /\ events[i].op = "publish" /\ IsDispatch(events[i])
          /\ DOMAIN events[i].body = {"path_image", "accuracy"}
    /\ rresult = "Ok"

\* C29: also in remote mode the connection is created after validation and
\* before the first call; when creating it fails run_tests returns an error
\* and no call is made.
C29_RemoteNeedsConnection ==
    /\ redis # "none" => vresult = ValidOk
    /\ redis = "failed" =>
          /\ rresult = "Err: Failed to create Redis manager"
          /\ events = <<>> /\ idx = 0
    /\ events # <<>> => redis = "connected"
    /\ remote /\ rpc = "loop" => redis = "connected"

\* a remote run of two tests ended on the failed connection
C29_Witness ==
    /\ remote /\ redis = "failed" /\ Len(tests_to_run) = 2
    /\ rresult = "Err: Failed to create Redis manager"
    /\ events = <<>>

====
